---------------------------- MODULE Spec2Model ----------------------------
(* The variadic coordinate convention of goncurses' window API:           *)
(* Window.AddChar, Window.GetChar and Window.Print resolve up to two       *)
(* leading coordinates from their argument list and issue one call into    *)
(* the ncurses driver.  The driver is observed through the log of the      *)
(* calls it receives; res is the result the latest call reported.          *)
(* The forwarding wrappers, the key and attribute name tables and the menu *)
(* binding are modelled beside them; err, out and key are what a call      *)
(* returns to its caller.                                                  *)
EXTENDS Integers, Sequences, FiniteSets, TLC

VARIABLES args, nops, op, count, y, x, hasY, hasX, outcome, driver, res, ret,
          err, out, key, keyList, attrList, menu, threads, locals, inputMode

vars == <<args, nops, op, count, y, x, hasY, hasX, outcome, driver, res, ret,
          err, out, key, keyList, attrList, menu, threads, locals, inputMode>>

\* what the window operations below leave alone
tableVars == <<keyList, attrList>>
threadVars == <<threads, locals>>

-----------------------------------------------------------------------------
(* Bounds of the model. *)

MaxArgs == 5    \* longest argument list
MaxInt == 2     \* integer arguments are 1..MaxInt
MaxOps == 2     \* operations invoked in one behaviour


-----------------------------------------------------------------------------
(* Go values held in a ...interface{} argument list.  A string is a        *)
(* sequence of tokens; a token is a run of literal text or one formatting  *)
(* verb.                                                                   *)

IntV(n) == [t |-> "int", i |-> n, s |-> <<>>]
StrV(s) == [t |-> "string", i |-> 0, s |-> s]
BoolV == [t |-> "bool", i |-> 1, s |-> <<>>]

Verbs == {"%s", "%d"}

Ints == 1..MaxInt

Strings == { <<"hello!">>, <<"fmt ", "%s">>, <<"%d", " ", "%d">> }

Values == {IntV(n) : n \in Ints} \cup {StrV(s) : s \in Strings} \cup {BoolV}

ArgLists == UNION {[1..n -> Values] : n \in 0..MaxArgs}

AllInts(a) == \A k \in 1..Len(a) : a[k].t = "int"

Last(s) == s[Len(s)]

(* Return codes of the driver; a key read by wgetch is one of Ints. *)
OK == 0
ERR == -1

-----------------------------------------------------------------------------
(* fmt.Sprintf over token sequences. *)

VerbChar(v) == IF v = "%s" THEN "s" ELSE "d"

\* the default (%v) rendering of an operand
ValueText(v) ==
    CASE v.t = "int" -> <<ToString(v.i)>>
      [] v.t = "string" -> v.s
      [] OTHER -> <<"true">>

\* one operand under one verb
printArg(v, verb) ==
    IF (verb = "%d" /\ v.t = "int") \/ (verb = "%s" /\ v.t = "string")
    THEN ValueText(v)
    ELSE <<"%!", VerbChar(verb), "(", v.t, "=">> \o ValueText(v) \o <<")">>

RECURSIVE extraArgs(_)
extraArgs(a) ==
    IF a = <<>> THEN <<>>
    ELSE <<Head(a).t, "=">> \o ValueText(Head(a))
         \o (IF Tail(a) = <<>> THEN <<>> ELSE <<", ">>)
         \o extraArgs(Tail(a))

RECURSIVE doPrintf(_, _)
doPrintf(format, a) ==
    IF format = <<>>
    THEN IF a = <<>> THEN <<>> ELSE <<"%!(EXTRA ">> \o extraArgs(a) \o <<")">>
    ELSE IF Head(format) \in Verbs
         THEN IF a = <<>>
              THEN <<"%!", VerbChar(Head(format)), "(MISSING)">>
                   \o doPrintf(Tail(format), a)
              ELSE printArg(Head(a), Head(format))
                   \o doPrintf(Tail(format), Tail(a))
         ELSE <<Head(format)>> \o doPrintf(Tail(format), a)

Sprintf(format, a) == doPrintf(format, a)

-----------------------------------------------------------------------------
(* Calls into the ncurses driver. *)

\* character codes are non-negative, so C.int and C.chtype keep their value
DriverCall(fn, cy, cx, ch, str) ==
    [fn |-> fn, y |-> cy, x |-> cx, ch |-> ch, str |-> str, a |-> <<>>]

Waddch(ch) == DriverCall("waddch", 0, 0, ch, <<>>)
Mvwaddch(cy, cx, ch) == DriverCall("mvwaddch", cy, cx, ch, <<>>)
Wgetch == DriverCall("wgetch", 0, 0, 0, <<>>)
Mvwgetch(cy, cx) == DriverCall("mvwgetch", cy, cx, 0, <<>>)
Waddstr(str) == DriverCall("waddstr", 0, 0, 0, str)
Mvwaddstr(cy, cx, str) == DriverCall("mvwaddstr", cy, cx, 0, str)

BoolInt(b) == IF b THEN 1 ELSE 0

-----------------------------------------------------------------------------
(* Window.AddChar(args ...int) *)

\* variant: a lone argument taken for a coordinate
AddCharHasY_NonEmpty(a) == Len(a) > 0
AddCharHasY(a) == Len(a) > 1
AddCharHasX(a) == Len(a) > 2
\* variant: count is kept between calls instead of starting at zero
AddCharCount_Static(a) == count + BoolInt(AddCharHasY(a)) + BoolInt(AddCharHasX(a))
AddCharCount(a) == BoolInt(AddCharHasY(a)) + BoolInt(AddCharHasX(a))
AddCharY(a) == IF AddCharHasY(a) THEN a[1].i ELSE 0
\* variant: x read as soon as y is present
AddCharX_ThresholdOne(a) == IF Len(a) > 1 THEN a[2].i ELSE 0
AddCharX(a) == IF AddCharHasX(a) THEN a[2].i ELSE 0

\* args[count] is out of range
AddCharPanics(a) == AddCharCount(a) >= Len(a)

\* variant: the return after the move-then-add call is missing
AddCharCalls_NoReturn(a) ==
    IF AddCharPanics(a) THEN <<>>
    ELSE IF AddCharCount(a) > 0
         THEN <<Mvwaddch(AddCharY(a), AddCharX(a), a[AddCharCount(a) + 1].i),
                Waddch(a[AddCharCount(a) + 1].i)>>
         ELSE <<Waddch(a[AddCharCount(a) + 1].i)>>

AddCharCalls(a) ==
    IF AddCharPanics(a) THEN <<>>
    ELSE IF AddCharCount(a) > 0
         THEN <<Mvwaddch(AddCharY(a), AddCharX(a), a[AddCharCount(a) + 1].i)>>
         ELSE <<Waddch(a[AddCharCount(a) + 1].i)>>

WindowAddChar ==
    /\ nops < MaxOps
    /\ AllInts(args)
    /\ driver' = driver \o AddCharCalls(args)
    /\ IF AddCharPanics(args) THEN res' = res ELSE res' \in {OK, ERR}
    /\ op' = "AddChar"
    /\ hasY' = AddCharHasY(args)
    /\ hasX' = AddCharHasX(args)
    /\ count' = AddCharCount(args)
    /\ y' = AddCharY(args)
    /\ x' = AddCharX(args)
    /\ outcome' = IF AddCharPanics(args) THEN "panic" ELSE "ok"
    /\ ret' = 0
    /\ nops' = nops + 1
    /\ err' = "nil" /\ out' = <<>> /\ key' = ""
    /\ UNCHANGED <<args, menu, tableVars, threadVars, inputMode>>

-----------------------------------------------------------------------------
(* Window.GetChar(coords ...int) int *)

\* variant: y taken only from a list of exactly two
GetCharHasY_ExactlyTwo(a) == Len(a) = 2
GetCharHasY(a) == Len(a) > 1
GetCharHasX(a) == Len(a) > 2
GetCharCount(a) == BoolInt(GetCharHasY(a)) + BoolInt(GetCharHasX(a))
GetCharY(a) == IF GetCharHasY(a) THEN a[1].i ELSE 0
GetCharX(a) == IF GetCharHasX(a) THEN a[2].i ELSE 0

GetCharCalls(a) ==
    IF GetCharCount(a) > 0
    THEN <<Mvwgetch(GetCharY(a), GetCharX(a))>>
    ELSE <<Wgetch>>

WindowGetChar ==
    /\ nops < MaxOps
    /\ AllInts(args)
    /\ driver' = driver \o GetCharCalls(args)
    /\ res' \in {ERR} \cup Ints
    /\ ret' = res'
    /\ op' = "GetChar"
    /\ hasY' = GetCharHasY(args)
    /\ hasX' = GetCharHasX(args)
    /\ count' = GetCharCount(args)
    /\ y' = GetCharY(args)
    /\ x' = GetCharX(args)
    /\ outcome' = "ok"
    /\ nops' = nops + 1
    /\ err' = "nil" /\ out' = <<>> /\ key' = ""
    /\ UNCHANGED <<args, menu, tableVars, threadVars, inputMode>>

-----------------------------------------------------------------------------
(* Window.Print(args ...interface{}) *)

WindowPrintHasY(a) == Len(a) > 1 /\ a[1].t = "int"
WindowPrintHasX(a) == Len(a) > 2 /\ a[2].t = "int"
WindowPrintCount(a) == BoolInt(WindowPrintHasY(a)) + BoolInt(WindowPrintHasX(a))
WindowPrintY(a) == IF WindowPrintHasY(a) THEN a[1].i ELSE 0
\* variant: x read from the first argument
WindowPrintX_FirstArg(a) == IF WindowPrintHasX(a) THEN a[1].i ELSE 0
WindowPrintX(a) == IF WindowPrintHasX(a) THEN a[2].i ELSE 0

\* variant: the template is not asserted to be a string
WindowPrintPanics_IndexOnly(a) == WindowPrintCount(a) >= Len(a)

\* args[count] is out of range, or args[count].(string) fails
WindowPrintPanics(a) ==
    \/ WindowPrintCount(a) >= Len(a)
    \/ a[WindowPrintCount(a) + 1].t # "string"

\* variant: the substitution values start at the template, args[count:]
WindowPrintText_KeepsTemplate(a) ==
    Sprintf(a[WindowPrintCount(a) + 1].s, SubSeq(a, WindowPrintCount(a) + 1, Len(a)))

\* fmt.Sprintf(args[count].(string), args[count+1:]...)
WindowPrintText(a) ==
    Sprintf(a[WindowPrintCount(a) + 1].s, SubSeq(a, WindowPrintCount(a) + 2, Len(a)))

\* variant: the cursor is moved by a call of its own before the text is built
WindowPrintCalls_MoveFirst(a) ==
    (IF WindowPrintCount(a) > 0
     THEN <<DriverCall("wmove", WindowPrintY(a), WindowPrintX(a), 0, <<>>)>>
     ELSE <<>>)
    \o (IF WindowPrintPanics(a) THEN <<>> ELSE <<Waddstr(WindowPrintText(a))>>)

WindowPrintCalls(a) ==
    IF WindowPrintPanics(a) THEN <<>>
    ELSE IF WindowPrintCount(a) > 0
         THEN <<Mvwaddstr(WindowPrintY(a), WindowPrintX(a), WindowPrintText(a))>>
         ELSE <<Waddstr(WindowPrintText(a))>>

WindowPrint ==
    /\ nops < MaxOps
    /\ driver' = driver \o WindowPrintCalls(args)
    /\ IF WindowPrintPanics(args) THEN res' = res ELSE res' \in {OK, ERR}
    /\ op' = "Print"
    /\ hasY' = WindowPrintHasY(args)
    /\ hasX' = WindowPrintHasX(args)
    /\ count' = WindowPrintCount(args)
    /\ y' = WindowPrintY(args)
    /\ x' = WindowPrintX(args)
    /\ outcome' = IF WindowPrintPanics(args) THEN "panic" ELSE "ok"
    /\ ret' = 0
    /\ nops' = nops + 1
    /\ err' = "nil" /\ out' = <<>> /\ key' = ""
    /\ UNCHANGED <<args, menu, tableVars, threadVars, inputMode>>

-----------------------------------------------------------------------------

(* The code-to-name tables keyList and attrList. *)

KEY_DOWN == 258
KEY_UP == 259
KEY_LEFT == 260
KEY_RIGHT == 261
KEY_HOME == 262
KEY_BACKSPACE == 263
KEY_F0 == 264
KEY_NPAGE == 338
KEY_PPAGE == 339
KEY_ENTER == 343
KEY_MOUSE == 409

A_NORMAL == 0
A_CHARTEXT == 255
A_STANDOUT == 65536
A_UNDERLINE == 131072
A_REVERSE == 262144
A_BLINK == 524288
A_DIM == 1048576
A_BOLD == 2097152
A_ALTCHARSET == 4194304
A_INVIS == 8388608
A_PROTECT == 16777216

keyListInit ==
    (9 :> "tab") @@ (10 :> "enter") @@ (KEY_DOWN :> "down") @@ (KEY_UP :> "up")
    @@ (KEY_LEFT :> "left") @@ (KEY_RIGHT :> "right") @@ (KEY_HOME :> "home")
    @@ (KEY_BACKSPACE :> "backspace") @@ (KEY_ENTER :> "enter")
    @@ (KEY_F0 :> "F0") @@ (KEY_F0 + 1 :> "F1") @@ (KEY_F0 + 2 :> "F2")
    @@ (KEY_F0 + 3 :> "F3") @@ (KEY_F0 + 4 :> "F4") @@ (KEY_F0 + 5 :> "F5")
    @@ (KEY_F0 + 6 :> "F6") @@ (KEY_F0 + 7 :> "F7") @@ (KEY_F0 + 8 :> "F8")
    @@ (KEY_F0 + 9 :> "F9") @@ (KEY_F0 + 10 :> "F10") @@ (KEY_F0 + 11 :> "F11")
    @@ (KEY_F0 + 12 :> "F12") @@ (KEY_MOUSE :> "mouse")
    @@ (KEY_NPAGE :> "page down") @@ (KEY_PPAGE :> "page up")

attrListInit ==
    (A_NORMAL :> "normal") @@ (A_STANDOUT :> "standout")
    @@ (A_UNDERLINE :> "underline") @@ (A_REVERSE :> "reverse")
    @@ (A_BLINK :> "blink") @@ (A_DIM :> "dim") @@ (A_BOLD :> "bold")
    @@ (A_PROTECT :> "protect") @@ (A_INVIS :> "invis")
    @@ (A_ALTCHARSET :> "altcharset") @@ (A_CHARTEXT :> "chartext")

-----------------------------------------------------------------------------
(* Window.AddChar and Window.Print called from several threads: each call  *)
(* runs statement by statement on its own locals.                          *)

Threads == {"t1", "t2"}

\* at most two coordinates precede the payload
MaxLead == 2

ThreadValues == {IntV(n) : n \in Ints} \cup {StrV(<<"hello!">>)}
ThreadArgLists == UNION {[1..n -> ThreadValues] : n \in 0..(MaxLead + 1)}
ThreadCalls ==
    {[op |-> "AddChar", args |-> a] : a \in {b \in ThreadArgLists : AllInts(b)}}
    \cup {[op |-> "Print", args |-> a] : a \in ThreadArgLists}

NoCall == DriverCall("none", 0, 0, 0, <<>>)
ZeroLocals == [count |-> 0, y |-> 0, x |-> 0, ch |-> 0, str |-> <<>>]
IdleThread == [op |-> "none", args |-> <<>>, pc |-> "idle", call |-> NoCall]

\* variant: the locals are package-level variables, one copy for all calls
Slot_Shared(t) == "t1"
\* where the locals of the call running in thread t live
Slot(t) == t

ThreadHasY(t) ==
    IF threads[t].op = "Print" THEN WindowPrintHasY(threads[t].args)
    ELSE AddCharHasY(threads[t].args)

ThreadHasX(t) ==
    IF threads[t].op = "Print" THEN WindowPrintHasX(threads[t].args)
    ELSE AddCharHasX(threads[t].args)

windowVars == <<args, nops, op, count, y, x, hasY, hasX, outcome, ret>>
returnVars == <<err, out, key>>

\* if len(args) > 1 { y = args[0]; count += 1 }
ThreadIfY(t) ==
    /\ threads[t].pc = "ifY"
    /\ locals' = IF ThreadHasY(t)
                 THEN [locals EXCEPT ![Slot(t)].y = threads[t].args[1].i,
                                     ![Slot(t)].count = @ + 1]
                 ELSE locals
    /\ threads' = [threads EXCEPT ![t].pc = "ifX"]
    /\ UNCHANGED <<windowVars, returnVars, tableVars, menu, driver, res, inputMode>>

\* if len(args) > 2 { x = args[1]; count += 1 }
ThreadIfX(t) ==
    /\ threads[t].pc = "ifX"
    /\ locals' = IF ThreadHasX(t)
                 THEN [locals EXCEPT ![Slot(t)].x = threads[t].args[2].i,
                                     ![Slot(t)].count = @ + 1]
                 ELSE locals
    /\ threads' = [threads EXCEPT ![t].pc = "payload"]
    /\ UNCHANGED <<windowVars, returnVars, tableVars, menu, driver, res, inputMode>>

\* cattr |= C.int(args[count]); cstr := C.CString(fmt.Sprintf(args[count].(string), ...))
ThreadPayload(t) ==
    /\ threads[t].pc = "payload"
    /\ LET c == locals[Slot(t)].count
           a == threads[t].args
       IN IF c >= Len(a) \/ (threads[t].op = "Print" /\ a[c + 1].t # "string")
          THEN /\ threads' = [threads EXCEPT ![t].pc = "panicked"]
               /\ UNCHANGED locals
          ELSE /\ threads' = [threads EXCEPT ![t].pc = "call"]
               /\ locals' = IF threads[t].op = "Print"
                            THEN [locals EXCEPT ![Slot(t)].str =
                                     Sprintf(a[c + 1].s, SubSeq(a, c + 2, Len(a)))]
                            ELSE [locals EXCEPT ![Slot(t)].ch = a[c + 1].i]
    /\ UNCHANGED <<windowVars, returnVars, tableVars, menu, driver, res, inputMode>>

\* if count > 0 { C.mvw...; return }; C.w...
ThreadCall(t) ==
    /\ threads[t].pc = "call"
    /\ LET l == locals[Slot(t)]
           c == IF threads[t].op = "Print"
                THEN IF l.count > 0 THEN Mvwaddstr(l.y, l.x, l.str) ELSE Waddstr(l.str)
                ELSE IF l.count > 0 THEN Mvwaddch(l.y, l.x, l.ch) ELSE Waddch(l.ch)
       IN /\ threads' = [threads EXCEPT ![t].pc = "done", ![t].call = c]
          /\ driver' = Append(driver, c)
    /\ res' \in {OK, ERR}
    /\ UNCHANGED <<windowVars, returnVars, tableVars, menu, locals, inputMode>>

\* the menu extension's state: the item array it points to, its item count,
\* its current item (none yet) and its spacing (one by default)
menuInit == [items |-> <<>>, n |-> 0, cur |-> 0, desc |-> 1, row |-> 1, col |-> 1]

apiInit ==
    /\ err = "nil"
    /\ out = <<>>
    /\ key = ""
    /\ keyList = keyListInit
    /\ attrList = attrListInit
    /\ menu = menuInit
    /\ inputMode = 0
    /\ locals = [t \in Threads |-> ZeroLocals]

windowInit ==
    /\ nops = 0
    /\ op = "none"
    /\ count = 0
    /\ y = 0
    /\ x = 0
    /\ hasY = FALSE
    /\ hasX = FALSE
    /\ outcome = "none"
    /\ driver = <<>>
    /\ res = OK
    /\ ret = 0

InitThreads ==
    /\ args = <<>>
    /\ windowInit
    /\ apiInit
    /\ threads \in [Threads -> {[op |-> c.op, args |-> c.args, pc |-> "ifY", call |-> NoCall]
                                  : c \in ThreadCalls}]

NextThreads ==
    \E t \in Threads : ThreadIfY(t) \/ ThreadIfX(t) \/ ThreadPayload(t) \/ ThreadCall(t)

SpecThreads == InitThreads /\ [][NextThreads]_vars

-----------------------------------------------------------------------------

(* The forwarding wrappers: one driver call each, ERR turned into an error. *)

\* the window the methods are called on (stdscr = initscr())
Stdscr == 0

\* C.short(v): 16-bit two's complement
CShort(v) == ((v + 32768) % 65536) - 32768

\* C.COLOR_PAIR(n): the pair number in the attribute bits above A_CHARTEXT
COLOR_PAIR(n) == n * (A_CHARTEXT + 1)

\* an int the driver's short parameters cannot hold
WideInt == 65537

\* a Go bool argument
BoolArg(b) == [t |-> "bool", i |-> BoolInt(b), s |-> <<>>]

ApiCall(fn, a) == [fn |-> fn, y |-> 0, x |-> 0, ch |-> 0, str |-> <<>>, a |-> a]

\* variant: everything but OK is a failure
ErrorOf_NotOK(r) == IF r # OK THEN "error" ELSE "nil"
\* if C.f(...) == C.ERR { return os.NewError(...) }; return nil
ErrorOf(r) == IF r = ERR THEN "error" ELSE "nil"

Forward(name, a, call, results) ==
    /\ nops < MaxOps
    /\ op' = name
    /\ args' = a
    /\ driver' = Append(driver, call)
    /\ res' \in results
    /\ err' = ErrorOf(res')
    /\ nops' = nops + 1
    /\ out' = <<>>
    /\ key' = ""
    /\ UNCHANGED <<count, y, x, hasY, hasX, outcome, ret, menu, tableVars, threadVars, inputMode>>

Status == {OK, ERR}

Clear == Forward("Clear", <<>>, ApiCall("wclear", <<Stdscr>>), Status)

ClearToBottom == Forward("ClearToBottom", <<>>, ApiCall("wclrtobot", <<Stdscr>>), Status)

ClearToEOL == Forward("ClearToEOL", <<>>, ApiCall("wclrtoeol", <<Stdscr>>), Status)

Delete == Forward("Delete", <<>>, ApiCall("delwin", <<Stdscr>>), Status)

Update == Forward("Update", <<>>, ApiCall("doupdate", <<>>), Status)

Box ==
    \E vch \in Ints :
        LET hch == vch + 1
        IN Forward("Box", <<IntV(vch), IntV(hch)>>, ApiCall("box", <<Stdscr, vch, hch>>), Status)

Border ==
    \E ls \in Ints :
        Forward("Border", [i \in 1..8 |-> IntV(ls + i - 1)],
                ApiCall("wborder", <<Stdscr>> \o [i \in 1..8 |-> ls + i - 1]), Status)

Overlay ==
    \E src \in Ints :
        Forward("Overlay", <<IntV(src)>>, ApiCall("overlay", <<src, Stdscr>>), Status)

Overwrite ==
    \E src \in Ints :
        Forward("Overwrite", <<IntV(src)>>, ApiCall("overwrite", <<src, Stdscr>>), Status)

Copy ==
    \E src \in Ints, overlay \in BOOLEAN :
        LET sy == src + 1
            ol == IF overlay THEN 1 ELSE 0
        IN Forward("Copy", <<IntV(src)>> \o [i \in 1..6 |-> IntV(sy + i - 1)] \o <<BoolArg(overlay)>>,
                   ApiCall("copywin", <<src, Stdscr>> \o [i \in 1..6 |-> sy + i - 1] \o <<ol>>),
                   Status)

Keypad ==
    \E keypad \in BOOLEAN :
        Forward("Keypad", <<BoolArg(keypad)>>, ApiCall("keypad", <<Stdscr, BoolInt(keypad)>>), Status)

ColorOn ==
    \E pair \in Ints :
        Forward("ColorOn", <<IntV(pair)>>, ApiCall("wattron", <<Stdscr, COLOR_PAIR(pair)>>), Status)

ColorOff ==
    \E pair \in Ints :
        Forward("ColorOff", <<IntV(pair)>>, ApiCall("wattroff", <<Stdscr, COLOR_PAIR(pair)>>), Status)

Attrs == {A_BOLD, A_BOLD + A_UNDERLINE}

AttrOn ==
    \E attr \in Attrs :
        Forward("AttrOn", <<IntV(attr)>>, ApiCall("wattron", <<Stdscr, attr>>), Status)

AttrOff ==
    \E attr \in Attrs :
        Forward("AttrOff", <<IntV(attr)>>, ApiCall("wattroff", <<Stdscr, attr>>), Status)

\* curs_set returns the previous visibility (0, 1 or 2) or ERR
Cursor ==
    \E vis \in 0..2 :
        Forward("Cursor", <<IntV(vis)>>, ApiCall("curs_set", <<vis>>), {ERR} \cup 0..2)

InitColor ==
    \E col \in Ints \cup {WideInt}, r \in {0, 1000} :
        LET g == 500
            b == 1000 - r
        IN Forward("InitColor", <<IntV(col), IntV(r), IntV(g), IntV(b)>>,
                   ApiCall("init_color", <<CShort(col), CShort(r), CShort(g), CShort(b)>>),
                   Status)

-----------------------------------------------------------------------------

(* InitPair and Key *)

\* the number of colour pairs of the terminal (C.COLOR_PAIRS)
COLOR_PAIRS == 64

\* pair is a byte
Pairs == {0, 1, COLOR_PAIRS - 1, COLOR_PAIRS, 255}

\* variant: pair COLOR_PAIRS itself is let through
InitPairRejects_OffByOne(pair) == pair = 0 \/ pair > COLOR_PAIRS
\* if pair == 0 || C.int(pair) > (C.COLOR_PAIRS-1)
InitPairRejects(pair) == pair = 0 \/ pair > (COLOR_PAIRS - 1)

InitPair ==
    \E pair \in Pairs, fg \in Ints \cup {WideInt} :
        LET bg == 0
            a == <<IntV(pair), IntV(fg), IntV(bg)>>
        IN IF InitPairRejects(pair)
           THEN /\ nops < MaxOps
                /\ op' = "InitPair"
                /\ args' = a
                /\ err' = "error"
                /\ nops' = nops + 1
                /\ out' = <<>>
                /\ key' = ""
                /\ UNCHANGED <<count, y, x, hasY, hasX, outcome, ret, driver, res,
                               menu, tableVars, threadVars, inputMode>>
           ELSE Forward("InitPair", a,
                        ApiCall("init_pair", <<CShort(pair), CShort(fg), CShort(bg)>>), Status)

\* fmt.Sprintf("%c", k) for the sampled codes
RuneText == (48 :> "0") @@ (65 :> "A") @@ (97 :> "a")

KeyInputs == {9, 10, KEY_ENTER, KEY_F0 + 1, KEY_MOUSE} \cup DOMAIN RuneText

\* variant: the table is not consulted
KeyName_RuneOnly(k) == IF k \in DOMAIN RuneText THEN RuneText[k] ELSE "?"
\* key, ok = keyList[C.int(k)]; if !ok { key = fmt.Sprintf("%c", k) }
KeyName(k) == IF k \in DOMAIN keyList THEN keyList[k] ELSE RuneText[k]

KeyStep(k, table) ==
    /\ nops < MaxOps
    /\ op' = "Key"
    /\ args' = <<IntV(k)>>
    /\ key' = KeyName(k)
    /\ keyList' = table
    /\ err' = "nil"
    /\ nops' = nops + 1
    /\ out' = <<>>
    /\ UNCHANGED <<count, y, x, hasY, hasX, outcome, ret, driver, res,
                   menu, attrList, threadVars, inputMode>>

\* variant: a rendering is remembered in the table
Key_Memoised == \E k \in KeyInputs : KeyStep(k, (k :> KeyName(k)) @@ keyList)

Key == \E k \in KeyInputs : KeyStep(k, keyList)

\* delays handed to HalfDelay: none or negative, tenths of a second the
\* driver takes (1..255), and one it refuses
Delays == {-1, 0, 256} \cup Ints

\* variant: a delay of zero is handed to the driver as well
HalfDelayCalls_NonNegative(delay) == delay >= 0
\* if delay > 0 { cerr = C.halfdelay(C.int(delay)) }
HalfDelayCalls(delay) == delay > 0

\* var cerr C.int is zero unless the call is made; inputMode is the delay of
\* the driver's half-delay mode, 0 when it is in none
HalfDelay ==
    \E delay \in Delays :
        /\ nops < MaxOps
        /\ op' = "HalfDelay"
        /\ args' = <<IntV(delay)>>
        /\ IF HalfDelayCalls(delay)
           THEN /\ driver' = Append(driver, ApiCall("halfdelay", <<delay>>))
                /\ res' \in IF delay \in 1..255 THEN Status ELSE {ERR}
                /\ inputMode' = IF res' = OK THEN delay ELSE inputMode
                /\ err' = ErrorOf(res')
           ELSE /\ err' = ErrorOf(0)
                /\ UNCHANGED <<driver, res, inputMode>>
        /\ nops' = nops + 1
        /\ out' = <<>>
        /\ key' = ""
        /\ UNCHANGED <<count, y, x, hasY, hasX, outcome, ret, menu, tableVars, threadVars>>

InitApi ==
    /\ args = <<>>
    /\ windowInit
    /\ apiInit
    /\ threads = [t \in Threads |-> IdleThread]

NextApi ==
    \/ Clear
    \/ ClearToBottom
    \/ ClearToEOL
    \/ Delete
    \/ Update
    \/ Box
    \/ Border
    \/ Overlay
    \/ Overwrite
    \/ Copy
    \/ Keypad
    \/ ColorOn
    \/ ColorOff
    \/ AttrOn
    \/ AttrOff
    \/ Cursor
    \/ InitColor
    \/ Key
    \/ HalfDelay

SpecApi == InitApi /\ [][NextApi]_vars

NextColor == InitPair \/ InitColor \/ ColorOn \/ ColorOff

SpecColor == InitApi /\ [][NextColor]_vars

-----------------------------------------------------------------------------

(* The menu binding (menu.go) *)

E_OK == 0

\* a nil *MenuItem / NULL ITEM*
Nil == 0

\* item slices: items are pointers (1, 2), possibly nil
ItemLists == {<<>>, <<1>>, <<1, 2>>, <<2, 1>>, <<1, Nil, 2>>}

\* variant: the list is handed over without its terminator
MakeCItems_NoTerminator(items) == items
\* citems := make([]*C.ITEM, len(items)+1); copy; citems[len(items)] = nil
MakeCItems(items) == items \o <<Nil>>

\* the menu library counts the items up to the first NULL
ItemCount(citems) ==
    IF \E i \in 1..Len(citems) : citems[i] = Nil
    THEN (CHOOSE i \in 1..Len(citems) :
              citems[i] = Nil /\ \A j \in 1..(i - 1) : citems[j] # Nil) - 1
    ELSE Len(citems)

\* ncursesError is defined outside these files: its result is left open
AnyError == {"nil", "error"}

MenuStep(name, a, calls, results) ==
    /\ nops < MaxOps
    /\ op' = name
    /\ args' = a
    /\ driver' = driver \o calls
    /\ res' \in results
    /\ nops' = nops + 1
    /\ key' = ""
    /\ UNCHANGED <<count, y, x, hasY, hasX, outcome, ret, tableVars, threadVars, inputMode>>

\* the library keeps the pointer to the list it is given and makes the first
\* item the current one
Connect(name, fn, results) ==
    \E items \in ItemLists :
        LET citems == MakeCItems(items)
        IN /\ MenuStep(name, [i \in 1..Len(items) |-> IntV(items[i])],
                       <<ApiCall(fn, citems)>>, results)
           /\ menu' = IF res' = E_OK
                      THEN [menu EXCEPT !.items = citems, !.n = ItemCount(citems),
                                        !.cur = citems[1]]
                      ELSE menu
           /\ err' \in AnyError
           /\ out' = <<>>

NewMenu == Connect("NewMenu", "new_menu", {E_OK, -1})

SetItems == Connect("SetItems", "set_menu_items", {E_OK, -2})

Items ==
    /\ MenuStep("Items", <<>>,
                <<ApiCall("menu_items", <<>>), ApiCall("item_count", <<>>)>>
                \o [i \in 1..menu.n |-> ApiCall("menu_item_at", <<i - 1>>)],
                {E_OK})
    /\ out' = [i \in 1..menu.n |-> menu.items[i]]
    /\ err' = "nil"
    /\ UNCHANGED menu

\* variant: the setter also answers with the current item
CurrentResult_AlwaysCurrent(mi, cur) == cur
\* if mi == nil { return current_item(m) }; ...; return nil
CurrentResult(mi, cur) == IF mi = Nil THEN cur ELSE Nil

\* current_item answers with the current item; set_current_item makes mi the
\* current item unless it reports an error, and its result is not looked at
Current ==
    \E mi \in {Nil} \cup Ints :
        /\ IF mi = Nil
           THEN /\ MenuStep("Current", <<IntV(mi)>>, <<ApiCall("current_item", <<>>)>>,
                            {menu.cur})
                /\ out' = <<CurrentResult(mi, res')>>
                /\ UNCHANGED menu
           ELSE /\ MenuStep("Current", <<IntV(mi)>>, <<ApiCall("set_current_item", <<mi>>)>>,
                            {E_OK, -2})
                /\ menu' = IF res' = E_OK THEN [menu EXCEPT !.cur = mi] ELSE menu
                /\ out' = <<CurrentResult(mi, menu.cur)>>
        /\ err' = "nil"

\* the list is Go memory nothing in Go refers to once NewMenu or SetItems has
\* returned: the collector may reuse it while the library still points to it
Collect ==
    /\ menu.items # <<>>
    /\ \E p \in {Nil} \cup Ints : menu' = [menu EXCEPT !.items = [i \in 1..Len(menu.items) |-> p]]
    /\ UNCHANGED <<args, nops, op, count, y, x, hasY, hasX, outcome, driver, res, ret,
                   returnVars, tableVars, threadVars, inputMode>>

SetSpacing ==
    \E desc \in Ints, row \in Ints :
        LET col == row
        IN /\ MenuStep("SetSpacing", <<IntV(desc), IntV(row), IntV(col)>>,
                       <<ApiCall("set_menu_spacing", <<desc, row, col>>)>>, {E_OK, -2})
           /\ menu' = IF res' = E_OK
                      THEN [menu EXCEPT !.desc = desc, !.row = row, !.col = col]
                      ELSE menu
           /\ err' \in AnyError
           /\ out' = <<>>

\* var desc, row, col C.int: written by menu_spacing when it succeeds
Spacing ==
    /\ MenuStep("Spacing", <<>>, <<ApiCall("menu_spacing", <<>>)>>, {E_OK, -1})
    /\ LET written == IF res' = E_OK THEN <<menu.desc, menu.row, menu.col>>
                      ELSE <<0, 0, 0>>
       IN out' = IF res' # E_OK THEN written ELSE <<0, 0, 0>>
    /\ err' = "nil"
    /\ UNCHANGED menu

NextMenu == NewMenu \/ SetItems \/ Items \/ Current \/ Collect

SpecMenu == InitApi /\ [][NextMenu]_vars

NextSpacing == SetSpacing \/ Spacing

SpecSpacing == InitApi /\ [][NextSpacing]_vars

-----------------------------------------------------------------------------

Init ==
    /\ args \in ArgLists
    /\ nops = 0
    /\ op = "none"
    /\ count = 0
    /\ y = 0
    /\ x = 0
    /\ hasY = FALSE
    /\ hasX = FALSE
    /\ outcome = "none"
    /\ driver = <<>>
    /\ res = OK
    /\ ret = 0
    /\ apiInit
    /\ threads = [t \in Threads |-> IdleThread]

Next == WindowAddChar \/ WindowGetChar \/ WindowPrint

Spec == Init /\ [][Next]_vars

TypeOK ==
    /\ args \in ArgLists
    /\ nops \in 0..MaxOps
    /\ op \in {"none", "AddChar", "GetChar", "Print"}
    /\ count \in 0..2
    /\ outcome \in {"none", "ok", "panic"}
    /\ Len(driver) <= nops

-----------------------------------------------------------------------------
(* Shapes of argument lists, as the calling convention describes them. *)

IsInt(v) == v.t = "int"
IsStr(v) == v.t = "string"
NoVerbs(str) == \A k \in 1..Len(str) : str[k] \notin Verbs

\* the operation just performed is one that takes a payload
PayloadOp == op \in {"AddChar", "Print"}

\* [y, payload]
ShapeY ==
    /\ Len(args) = 2
    /\ IsInt(args[1])
    /\ IF op = "Print" THEN IsStr(args[2]) ELSE IsInt(args[2])

\* [y, x, payload]
ShapeYX ==
    /\ Len(args) = 3
    /\ IsInt(args[1])
    /\ IsInt(args[2])
    /\ IF op = "Print" THEN IsStr(args[3]) ELSE IsInt(args[3])

\* [payload]
ShapePayload ==
    /\ Len(args) = 1
    /\ IF op = "Print" THEN IsStr(args[1]) ELSE IsInt(args[1])

\* the driver call the last operation issued carries payload p
CarriesPayload(c, p) ==
    IF op = "Print" THEN c.str = Sprintf(p.s, <<>>) /\ (NoVerbs(p.s) => c.str = p.s)
    ELSE c.ch = p.i

MoveFn == IF op = "Print" THEN "mvwaddstr" ELSE "mvwaddch"
PlainFn == IF op = "Print" THEN "waddstr" ELSE "waddch"

-----------------------------------------------------------------------------
C3_Original ==
    (PayloadOp /\ ShapePayload) =>
        /\ outcome = "ok"
        /\ ~hasY /\ ~hasX
        /\ driver # <<>>
        /\ Last(driver).fn = PlainFn
        /\ IF op = "Print" THEN Last(driver).str = args[1].s
           ELSE Last(driver).ch = args[1].i

(* C3 amended: for every argument list holding only the payload, no        *)
(* coordinate is resolved and the plain driver call is issued with that    *)
(* payload; for Print the text sent is the string rendered as a format     *)
(* template with no substitution values, which is the string itself        *)
(* whenever it holds no formatting verb.                                   *)
C3_PayloadOnlyIsPlain ==
    (PayloadOp /\ ShapePayload) =>
        /\ outcome = "ok"
        /\ ~hasY /\ ~hasX /\ count = 0
        /\ driver # <<>>
        /\ Last(driver).fn = PlainFn
        /\ CarriesPayload(Last(driver), args[1])

C3_Witness ==
    /\ op = "Print" /\ ShapePayload /\ outcome = "ok"
    /\ args[1].s = <<"hello!">>
    /\ Last(driver) = Waddstr(<<"hello!">>)

(* C4: for every Print argument list whose first element is a string, no   *)
(* coordinate is resolved whatever the later elements are, and the call    *)
(* issues a plain print of the template rendered with all the remaining    *)
(* elements.                                                               *)
C4_StringFirstIsPlain ==
    (op = "Print" /\ Len(args) >= 1 /\ IsStr(args[1])) =>
        /\ outcome = "ok"
        /\ ~hasY /\ ~hasX
        /\ driver # <<>>
        /\ Last(driver).fn = "waddstr"
        /\ Last(driver).str = Sprintf(args[1].s, Tail(args))

(* C5: for every Print argument list [y, x, template, v1..vn] the text     *)
(* sent is the template with v1..vn substituted positionally in order,     *)
(* none of the coordinates, as one string in a single move-then-print call *)
(* at (y, x); [y, x, "fmt %s", "hello!"] prints "fmt hello!".              *)
C5_TemplateRendered ==
    (op = "Print" /\ Len(args) >= 3 /\ IsInt(args[1]) /\ IsInt(args[2])
                  /\ IsStr(args[3])) =>
        /\ outcome = "ok"
        /\ Len(driver) = nops
        /\ Last(driver).fn = "mvwaddstr"
        /\ Last(driver).y = args[1].i
        /\ Last(driver).x = args[2].i
        /\ Last(driver).str = Sprintf(args[3].s, SubSeq(args, 4, Len(args)))
        /\ (Len(args) = 4 /\ args[3].s = <<"fmt ", "%s">> /\ IsStr(args[4]))
              => Last(driver).str = <<"fmt ">> \o args[4].s
        /\ (Len(args) = 5 /\ args[3].s = <<"%d", " ", "%d">>
                          /\ IsInt(args[4]) /\ IsInt(args[5]))
              => Last(driver).str = <<ToString(args[4].i), " ", ToString(args[5].i)>>

C5_Witness ==
    /\ op = "Print" /\ outcome = "ok"
    /\ args = <<IntV(1), IntV(2), StrV(<<"%d", " ", "%d">>), IntV(2), IntV(1)>>
    /\ Last(driver) = Mvwaddstr(1, 2, <<"2", " ", "1">>)

(* C6: an argument list with more than two leading coordinate elements     *)
(* before the payload fails; it is not resolved by taking the first two    *)
(* elements as (y, x) and ignoring the rest.                               *)
C6_TooManyCoordinatesFail ==
    \/ (op = "AddChar" /\ Len(args) >= 4)
    \/ (op = "Print" /\ Len(args) >= 4 /\ IsInt(args[1]) /\ IsInt(args[2])
                     /\ IsInt(args[3]))
    => outcome = "panic"

\* the number of leading coordinates of a Print argument list, at most two
LeadingInts(a) ==
    IF Len(a) >= 1 /\ IsInt(a[1])
    THEN IF Len(a) >= 2 /\ IsInt(a[2]) THEN 2 ELSE 1
    ELSE 0

\* the payload is missing, or the element at the template position is not a string
Malformed ==
    \/ Len(args) = 0
    \/ /\ op = "Print"
       /\ \/ LeadingInts(args) >= Len(args)
          \/ ~IsStr(args[LeadingInts(args) + 1])

(* C7: a call whose payload is missing or of the wrong shape (no element   *)
(* at all; for Print an element at the template position that is not a    *)
(* string) fails.                                                          *)
C7_MalformedPayloadFails ==
    (PayloadOp /\ Malformed) => outcome = "panic"

C7_Witness ==
    /\ op = "Print" /\ Malformed /\ outcome = "panic"
    /\ args = <<IntV(1), IntV(2)>>

(* C8: whenever Print or AddChar fails, it has issued no driver call: the  *)
(* failure comes before the first external call and the window is as it    *)
(* was.                                                                    *)
C8_FailureIssuesNoCall ==
    [][(nops' # nops /\ op' \in {"AddChar", "Print"} /\ outcome' = "panic")
          => driver' = driver]_vars

C8_Witness ==
    /\ op = "AddChar" /\ outcome = "panic"
    /\ nops = 2 /\ Len(driver) = 1 /\ driver[1].fn = "wgetch"

(* C9: every AddChar, Print or GetChar call that completes issues exactly  *)
(* one driver call: the plain primitive when no coordinate was resolved,   *)
(* the combined move-then-act primitive otherwise.                         *)
C9_ExactlyOneDriverCall ==
    [][(nops' # nops /\ outcome' = "ok") =>
          /\ Len(driver') = Len(driver) + 1
          /\ SubSeq(driver', 1, Len(driver)) = driver
          /\ Last(driver').fn =
                CASE op' = "AddChar" -> IF hasY' \/ hasX' THEN "mvwaddch" ELSE "waddch"
                  [] op' = "GetChar" -> IF hasY' \/ hasX' THEN "mvwgetch" ELSE "wgetch"
                  [] OTHER -> IF hasY' \/ hasX' THEN "mvwaddstr" ELSE "waddstr"]_vars

C9_Witness ==
    /\ nops = 2 /\ outcome = "ok" /\ Len(driver) = 2
    /\ driver[1].fn = "wgetch" /\ driver[2].fn = "waddch"

(* C10: in every resolution that AddChar, GetChar or Print acts on, an x   *)
(* taken from the arguments implies a y taken from the arguments, and for  *)
(* AddChar and Print at least one element is left after the coordinates.   *)
C10_ResolutionInvariant ==
    (op # "none" /\ outcome = "ok") =>
        /\ hasX => hasY
        /\ PayloadOp => Len(args) - count >= 1

C10_Witness ==
    /\ op = "Print" /\ outcome = "ok" /\ hasX /\ hasY
    /\ Len(args) - count = 1

(* C11: GetChar follows the coordinate convention: with no coordinate it   *)
(* reads at the cursor, with one coordinate y it moves to (y, 0) and       *)
(* reads, with two coordinates (y, x) it moves to (y, x) and reads.        *)
C11_GetCharConvention ==
    (op = "GetChar" /\ Len(args) <= 2) =>
        /\ outcome = "ok"
        /\ driver # <<>>
        /\ Len(args) = 0 => Last(driver) = Wgetch
        /\ Len(args) = 1 => Last(driver) = Mvwgetch(args[1].i, 0)
        /\ Len(args) = 2 => Last(driver) = Mvwgetch(args[1].i, args[2].i)

\* driver calls issued by the same operation
SameOperation(c, d) ==
    \E fns \in {{"waddch", "mvwaddch"}, {"wgetch", "mvwgetch"}, {"waddstr", "mvwaddstr"}} :
        c.fn \in fns /\ d.fn \in fns

Alone(t) ==
    IF threads[t].op = "Print" THEN WindowPrintCalls(threads[t].args)
    ELSE AddCharCalls(threads[t].args)

AloneCount(t) ==
    IF threads[t].op = "Print" THEN WindowPrintCount(threads[t].args)
    ELSE AddCharCount(threads[t].args)

(* C13: when several threads resolve argument lists concurrently, under    *)
(* every interleaving each call resolves the coordinates and payload it    *)
(* resolves alone: it reads and writes only its own locals.                *)
C13_ThreadsResolveAsAlone ==
    \A t \in Threads :
        /\ threads[t].pc = "done" =>
              /\ Alone(t) # <<>>
              /\ threads[t].call = Alone(t)[1]
              /\ locals[t].count = AloneCount(t)
        /\ threads[t].pc = "panicked" => Alone(t) = <<>>
        /\ threads[t].pc \in {"call", "done", "panicked"} =>
              locals[t].count = AloneCount(t)

C13_Witness ==
    /\ threads["t1"].pc = "done" /\ threads["t2"].pc = "done"
    /\ threads["t1"].call = Mvwaddch(1, 2, 1)
    /\ threads["t2"].call = Mvwaddstr(2, 0, <<"hello!">>)
    /\ driver = <<threads["t2"].call, threads["t1"].call>>

(* C14: when the driver primitive reports failure during a resolved        *)
(* AddChar or Print call, the failure is surfaced to the caller rather     *)
(* than dropped.                                                           *)
C14_DriverFailureSurfaced ==
    (op \in {"AddChar", "Print"} /\ outcome = "ok" /\ res = ERR) => err # "nil"

Wrappers ==
    {"Clear", "ClearToBottom", "ClearToEOL", "Box", "Border", "Overlay", "Overwrite",
     "Copy", "Keypad", "ColorOn", "ColorOff", "AttrOn", "AttrOff", "Delete", "Update",
     "Cursor", "InitColor"}

WrapperFn ==
    [o \in Wrappers |->
        CASE o = "Clear" -> "wclear"
          [] o = "ClearToBottom" -> "wclrtobot"
          [] o = "ClearToEOL" -> "wclrtoeol"
          [] o = "Box" -> "box"
          [] o = "Border" -> "wborder"
          [] o = "Overlay" -> "overlay"
          [] o = "Overwrite" -> "overwrite"
          [] o = "Copy" -> "copywin"
          [] o = "Keypad" -> "keypad"
          [] o = "ColorOn" -> "wattron"
          [] o = "ColorOff" -> "wattroff"
          [] o = "AttrOn" -> "wattron"
          [] o = "AttrOff" -> "wattroff"
          [] o = "Delete" -> "delwin"
          [] o = "Update" -> "doupdate"
          [] o = "Cursor" -> "curs_set"
          [] o = "InitColor" -> "init_color"]

CallerArgs(a) == [i \in 1..Len(a) |-> a[i].i]

\* the caller's arguments in the driver's parameter order: window methods
\* pass the window, the copying ones the source window before it, the colour
\* switches the pair as an attribute
ForwardedArgs(o, a) ==
    CASE o \in {"Update", "Cursor", "InitColor"} -> CallerArgs(a)
      [] o \in {"Overlay", "Overwrite", "Copy"} -> <<a[1].i, Stdscr>> \o Tail(CallerArgs(a))
      [] o \in {"ColorOn", "ColorOff"} -> <<Stdscr, COLOR_PAIR(a[1].i)>>
      [] OTHER -> <<Stdscr>> \o CallerArgs(a)

FitsShort(a) == \A i \in 1..Len(a) : a[i].i = CShort(a[i].i)

(* C15, as stated: each error-returning forwarding wrapper issues exactly  *)
(* one driver call with the caller's arguments and returns a non-nil error *)
(* if and only if that call reported ERR.                                  *)
C15_Original ==
    [][(nops' # nops /\ op' \in Wrappers) =>
          /\ driver' = Append(driver, ApiCall(WrapperFn[op'], ForwardedArgs(op', args')))
          /\ err' # "nil" <=> res' = ERR]_vars

(* C15, amended: each wrapper issues exactly one call of its driver        *)
(* function and returns a non-nil error iff that call reported ERR; the    *)
(* call carries the caller's arguments whenever they fit the driver's      *)
(* parameter types, and InitColor passes its arguments reduced to 16 bits. *)
C15_ForwardsOnce ==
    [][(nops' # nops /\ op' \in Wrappers) =>
          /\ Len(driver') = Len(driver) + 1
          /\ SubSeq(driver', 1, Len(driver)) = driver
          /\ Last(driver').fn = WrapperFn[op']
          /\ (op' # "InitColor" \/ FitsShort(args')) =>
                Last(driver') = ApiCall(WrapperFn[op'], ForwardedArgs(op', args'))
          /\ op' = "InitColor" =>
                Last(driver').a = [i \in 1..4 |-> CShort(args'[i].i)]
          /\ err' # "nil" <=> res' = ERR]_vars

C15_Witness ==
    /\ op = "Cursor" /\ res = 1 /\ err = "nil"
    /\ Len(driver) = 2
    /\ driver[1] = ApiCall("copywin", <<1, Stdscr, 2, 3, 4, 5, 6, 7, 1>>)
    /\ driver[2] = ApiCall("curs_set", <<2>>)

(* C16: keyList and attrList are never modified after initialization:      *)
(* after any sequence of operations each has exactly its initial entries.  *)
C16_TablesNeverModified ==
    /\ keyList = keyListInit
    /\ attrList = attrListInit

C16_Witness ==
    /\ nops = 2 /\ op = "Key" /\ key = "a"
    /\ Last(driver).fn = "wattron"
    /\ keyList = keyListInit

(* C18, as stated: InitPair rejects pair 0 and every pair above            *)
(* COLOR_PAIRS-1 with an error and no driver call; for every other pair it *)
(* issues exactly one init_pair call with (pair, fg, bg) and returns an    *)
(* error iff that call reported ERR.                                       *)
C18_Original ==
    [][(nops' # nops /\ op' = "InitPair") =>
          IF args'[1].i = 0 \/ args'[1].i > COLOR_PAIRS - 1
          THEN err' # "nil" /\ driver' = driver
          ELSE /\ driver' = Append(driver, ApiCall("init_pair", CallerArgs(args')))
               /\ err' # "nil" <=> res' = ERR]_vars

(* C18, amended: as stated, where the call carries (pair, fg, bg) when fg  *)
(* and bg fit the driver's 16-bit parameters and their low 16 bits         *)
(* otherwise.                                                              *)
C18_InitPairChecksPair ==
    [][(nops' # nops /\ op' = "InitPair") =>
          IF args'[1].i = 0 \/ args'[1].i > COLOR_PAIRS - 1
          THEN err' # "nil" /\ driver' = driver
          ELSE /\ driver' = Append(driver,
                      ApiCall("init_pair", [i \in 1..3 |-> CShort(args'[i].i)]))
               /\ FitsShort(args') => Last(driver').a = CallerArgs(args')
               /\ err' # "nil" <=> res' = ERR]_vars

C18_Witness ==
    /\ op = "InitPair" /\ args[1].i = COLOR_PAIRS /\ err = "error"
    /\ driver = <<ApiCall("init_pair", <<COLOR_PAIRS - 1, 2, 0>>)>>
    /\ nops = 2

(* C19: Key(k) returns the keyList name of every code in the table and    *)
(* the single-character rendering of every other code; it never fails and  *)
(* leaves the table as it was; codes 10 and KEY_ENTER both give "enter".   *)
C19_KeyNames ==
    [][(nops' # nops /\ op' = "Key") =>
          LET k == args'[1].i
          IN /\ k \in DOMAIN keyListInit => key' = keyListInit[k]
             /\ k \notin DOMAIN keyListInit => key' = RuneText[k]
             /\ k \in {10, KEY_ENTER} => key' = "enter"
             /\ err' = "nil"
             /\ keyList' = keyList
             /\ driver' = driver]_vars

C19_Witness ==
    /\ op = "Key" /\ args = <<IntV(KEY_ENTER)>> /\ key = "enter" /\ nops = 2

(* C17: Menu.Spacing returns the description, row and column spacing       *)
(* reported by the driver whenever menu_spacing succeeds (E_OK); it        *)
(* returns (0, 0, 0) only when that call fails.                            *)
C17_SpacingReturnsDriverValues ==
    op = "Spacing" =>
        /\ res = E_OK => out = <<menu.desc, menu.row, menu.col>>
        /\ out = <<0, 0, 0>> => res # E_OK

(* C20, as stated: NewMenu and SetItems hand the driver a list of length   *)
(* len(items)+1 whose first len(items) entries are the given items in      *)
(* order and whose last entry is the only nil; Menu.Items returns exactly  *)
(* Count() items, the i-th being the driver's i-th item.                   *)
C20_Original ==
    [][/\ (nops' # nops /\ op' \in {"NewMenu", "SetItems"}) =>
             LET items == CallerArgs(args')
                 list == Last(driver').a
             IN /\ Len(driver') = Len(driver) + 1
                /\ Len(list) = Len(items) + 1
                /\ SubSeq(list, 1, Len(items)) = items
                /\ \A i \in 1..Len(list) : list[i] = Nil <=> i = Len(list)
       /\ (nops' # nops /\ op' = "Items") =>
             /\ Len(out') = menu.n
             /\ \A i \in 1..Len(out') : out'[i] = menu.items[i]]_vars

(* C20, amended: the list has length len(items)+1, its first len(items)    *)
(* entries are the given items in order and its last entry is nil, the     *)
(* only nil when no given item is nil; the driver counts the items before  *)
(* the first nil; Menu.Items returns exactly Count() items, the i-th being *)
(* the driver's i-th item.                                                 *)
C20_ItemListTerminated ==
    [][/\ (nops' # nops /\ op' \in {"NewMenu", "SetItems"}) =>
             LET items == CallerArgs(args')
                 list == Last(driver').a
             IN /\ Len(driver') = Len(driver) + 1
                /\ Len(list) = Len(items) + 1
                /\ SubSeq(list, 1, Len(items)) = items
                /\ list[Len(list)] = Nil
                /\ (\A i \in 1..Len(items) : items[i] # Nil) =>
                      \A i \in 1..Len(items) : list[i] # Nil
                /\ res' = E_OK => menu'.n = ItemCount(items \o <<Nil>>)
       /\ (nops' # nops /\ op' = "Items") =>
             /\ Len(out') = menu.n
             /\ \A i \in 1..Len(out') : out'[i] = menu.items[i]]_vars

C20_Witness ==
    /\ nops = 2 /\ op = "Items" /\ out = <<2, 1>>
    /\ driver[1] = ApiCall("set_menu_items", <<2, 1, Nil>>)
    /\ menu.n = 2

C21_GetterWitness ==
    /\ nops = 2 /\ op = "Current" /\ args = <<IntV(Nil)>>
    /\ driver = <<ApiCall("new_menu", <<2, 1, Nil>>), ApiCall("current_item", <<>>)>>
    /\ out = <<2>>

(* C22: HalfDelay(delay) with delay <= 0 issues no driver call and returns *)
(* no error, leaving the input mode unchanged; with delay > 0 it issues    *)
(* exactly one halfdelay call and returns an error if and only if that     *)
(* call reported ERR.                                                      *)
C22_HalfDelayCallsWhenPositive ==
    [][(nops' # nops /\ op' = "HalfDelay") =>
          LET delay == args'[1].i
          IN IF delay <= 0
             THEN /\ driver' = driver
                  /\ err' = "nil"
                  /\ inputMode' = inputMode
             ELSE /\ driver' = Append(driver, ApiCall("halfdelay", <<delay>>))
                  /\ err' # "nil" <=> res' = ERR]_vars

C22_Witness ==
    /\ nops = 2 /\ op = "HalfDelay" /\ args = <<IntV(0)>>
    /\ driver = <<ApiCall("halfdelay", <<2>>)>>
    /\ res = OK /\ inputMode = 2 /\ err = "nil"

C22_FailureWitness ==
    /\ op = "HalfDelay" /\ args = <<IntV(256)>> /\ res = ERR /\ err = "error"
    /\ Last(driver) = ApiCall("halfdelay", <<256>>)

=============================================================================
